---- MODULE Spec2Model ----
(***************************************************************************)
(* check-labels.py: resolve a post reference (AT-URI, getRecord API URL or *)
(* bsky.app web URL) to an AT-URI, fetch the post with app.bsky.feed.      *)
(* getPosts, log in and retry once on HTTP 401, print the labels.          *)
(*                                                                         *)
(* Strings are modelled as sequences of lexical tokens: a token is a run   *)
(* of characters that none of the program's tests splits ("at://", "/",    *)
(* "?", "&", "=", " ", a host, a path word, a DID, a handle, a key).       *)
(***************************************************************************)
EXTENDS Integers, Sequences, FiniteSets, TLC

VARIABLES argv, pc, at_uri, access_token, handle, password, data, exc,
          calls, out, envReads, prompts, status

vars == <<argv, pc, at_uri, access_token, handle, password, data, exc,
          calls, out, envReads, prompts, status>>

\* Python's None, where the other values of the variable are strings.
NoneVal == "<None>"

\* Python truthiness of an optional string: None and "" are falsy.
Truthy(v) == v # NoneVal /\ v # ""

\* Largest number of labels a returned post carries.
MaxLabels == 2

(***************************************************************************)
(* String helpers over token sequences.                                    *)
(***************************************************************************)
Contains(s, tok) == \E i \in 1..Len(s) : s[i] = tok

FirstIndex(s, tok) == CHOOSE i \in 1..Len(s) : s[i] = tok /\ \A j \in 1..(i-1) : s[j] # tok

Tail2(s, i) == SubSeq(s, i, Len(s))

\* str.split(sep) on a token sequence: the segments between separators.
RECURSIVE SplitOn(_, _)
SplitOn(s, sep) ==
    IF ~Contains(s, sep) THEN <<s>>
    ELSE LET i == FirstIndex(s, sep)
         IN  <<SubSeq(s, 1, i - 1)>> \o SplitOn(Tail2(s, i + 1), sep)

\* input_str.startswith("at://")
StartsWithAt(s) == Len(s) >= 1 /\ s[1] = "at://"

\* urlparse(input_str).query: what follows the first "?".
UrlQuery(s) == IF Contains(s, "?") THEN Tail2(s, FirstIndex(s, "?") + 1) ELSE <<>>

\* parse_qs(query): the name=value fields separated by "&"; fields without
\* "=" and fields with a blank value are dropped (keep_blank_values=False).
ParseQs(q) ==
    LET fields == SplitOn(q, "&")
        ok(f)  == Contains(f, "=") /\ FirstIndex(f, "=") < Len(f)
    IN  SelectSeq(fields, ok)

FieldName(f)  == SubSeq(f, 1, FirstIndex(f, "=") - 1)
FieldValue(f) == Tail2(f, FirstIndex(f, "=") + 1)

\* params.get(name, [None])[0]: the first value given for name, or None.
ParamGet(params, name) ==
    LET hits == SelectSeq(params, LAMBDA f : FieldName(f) = <<name>>)
    IN  IF hits = <<>> THEN <<NoneVal>> ELSE FieldValue(hits[1])

IsNone(v) == v = <<NoneVal>>

\* f"at://{repo}/{collection}/{rkey}"
AtUri(repo, collection, rkey) ==
    <<"at://">> \o repo \o <<"/">> \o collection \o <<"/">> \o rkey

\* re.search(r'profile/([^/]+)/post/([^/?\s]+)', s): the match that starts
\* at token i, its two groups being s[i+2..j-1] and s[j+3..k].
RkeyStop == {"/", "?", " "}

MatchAt(s, i) ==
    /\ i + 6 <= Len(s)
    /\ s[i] = "profile" /\ s[i + 1] = "/" /\ s[i + 2] # "/"
    /\ \E j \in (i + 3)..(Len(s) - 3) :
          /\ s[j] = "/" /\ \A m \in (i + 2)..(j - 1) : s[m] # "/"
          /\ s[j + 1] = "post" /\ s[j + 2] = "/"
          /\ s[j + 3] \notin RkeyStop

HasMatch(s) == \E i \in 1..Len(s) : MatchAt(s, i)

MatchStart(s) == CHOOSE i \in 1..Len(s) : MatchAt(s, i) /\ \A m \in 1..(i - 1) : ~MatchAt(s, m)

\* group 1: the tokens between "profile/" and the next "/".
MatchHandle(s) ==
    LET i == MatchStart(s)
        j == FirstIndex(Tail2(s, i + 2), "/") + i + 1
    IN  SubSeq(s, i + 2, j - 1)

\* group 2: the longest run after "/post/" free of "/", "?" and whitespace.
MatchRkey(s) ==
    LET i == MatchStart(s)
        j == FirstIndex(Tail2(s, i + 2), "/") + i + 1
        k == CHOOSE k \in (j + 3)..Len(s) :
                 /\ \A m \in (j + 3)..k : s[m] \notin RkeyStop
                 /\ (k = Len(s) \/ s[k + 1] \in RkeyStop)
    IN  SubSeq(s, j + 3, k)

(***************************************************************************)
(* parse_input: which branch an input takes, and what it returns or        *)
(* raises without the network.                                             *)
(***************************************************************************)
IsApiUrl(s) == Contains(s, "xrpc/com.atproto.repo.getRecord")

IsWebUrl(s) == Contains(s, "bsky.app")

ApiParams(s) == ParseQs(UrlQuery(s))

ApiComplete(s) ==
    /\ ~IsNone(ParamGet(ApiParams(s), "repo"))
    /\ ~IsNone(ParamGet(ApiParams(s), "collection"))
    /\ ~IsNone(ParamGet(ApiParams(s), "rkey"))

ApiUri(s) ==
    AtUri(ParamGet(ApiParams(s), "repo"),
          ParamGet(ApiParams(s), "collection"),
          ParamGet(ApiParams(s), "rkey"))

\* Does parse_input issue the resolveHandle request for this input?
NeedsResolve(s) == ~StartsWithAt(s) /\ ~IsApiUrl(s) /\ IsWebUrl(s) /\ HasMatch(s)

(***************************************************************************)
(* Records of the run.                                                     *)
(***************************************************************************)
NoExc == [type |-> "none", msg |-> ""]
Exc(t, m) == [type |-> t, msg |-> m]

Line(kind, text) == [kind |-> kind, text |-> text]

\* One request: the function that issued it, its argument, the Authorization
\* header it carried (<<>> when none), how it ended, and what it returned
\* (<<v>>, or <<>> when it raised).
Call(fn, arg, auth, result, ret) ==
    [fn |-> fn, arg |-> arg, auth |-> auth, result |-> result, ret |-> ret]

\* How a request can end: a 2xx response, a 401, another error status
\* (raise_for_status), or no response at all (requests.ConnectionError).
Results == {"ok", "401", "http", "transport"}

RaisedBy(result) ==
    IF result = "transport" THEN Exc("ConnectionError", "connection failed")
    ELSE IF result = "401" THEN Exc("HTTPError", "401 Client Error")
    ELSE Exc("HTTPError", "Client or Server Error")

\* Mutant of Headers: the token is never attached.
HeadersNever(token) == <<>>

\* get_post: headers['Authorization'] is set only for a truthy token.
Headers(token) == IF Truthy(token) THEN <<"Bearer", token>> ELSE <<>>

(***************************************************************************)
(* The inputs and the remote service's answers.                            *)
(***************************************************************************)
Inputs == {
    <<"at://", "did:plc:abc123", "/", "app.bsky.feed.post", "/", "3lylub2qvq22i">>,
    <<"at://", "handle.bsky.social", "/", "app.bsky.feed.post", "/", "3lylub2qvq22i">>,
    <<"at://", "did:plc:abc123">>,
    <<"at://">>,
    <<"https://", "bsky.social", "/", "xrpc/com.atproto.repo.getRecord", "?",
      "repo", "=", "did:plc:abc123", "&", "collection", "=", "app.bsky.feed.post",
      "&", "rkey", "=", "xyz">>,
    <<"https://", "bsky.social", "/", "xrpc/com.atproto.repo.getRecord", "?",
      "repo", "=", "handle.bsky.social", "&", "collection", "=", "app.bsky.feed.post",
      "&", "rkey", "=", "xyz">>,
    <<"https://", "bsky.social", "/", "xrpc/com.atproto.repo.getRecord", "?",
      "repo", "=", "did:plc:abc123", "&", "collection", "=", "app.bsky.feed.post">>,
    <<"https://", "bsky.social", "/", "xrpc/com.atproto.repo.getRecord", "?",
      "repo", "=", "did:plc:abc123", "&", "collection", "=", "app.bsky.feed.post",
      "&", "rkey", "=">>,
    <<"https://", "bsky.app", "/", "profile", "/", "handle.bsky.social", "/",
      "post", "/", "3lylub2qvq22i">>,
    <<"https://", "bsky.app", "/", "profile", "/", "did:plc:abc123", "/",
      "post", "/", "3lylub2qvq22i">>,
    <<"https://", "bsky.app", "/", "profile", "/", "handle.bsky.social", "/",
      "post", "/", "3lylub2qvq22i", "?", "ref", "=", "share">>,
    <<"https://", "bsky.app", "/", "profile", "/", "handle.bsky.social">>,
    <<"not", " ", "a", " ", "recognized", " ", "string">> }

\* sys.argv[1:]: no argument, or one of the inputs.
Argvs == {<<>>} \cup {<<i>> : i \in Inputs}

\* The 'did' member of a resolveHandle answer: .get('did') gives None when
\* the member is missing.
DidAnswers == {"did:plc:999", NoneVal, ""}

\* The accessJwt member of a createSession answer: a token, "", JSON null,
\* or no such member ("missing": ['accessJwt'] raises KeyError).
TokenAnswers == {"jwt-1", "jwt-2", "", NoneVal, "missing"}

\* A post of the answer: it has an author or not, and carries n labels.
Post(hasAuthor, n) == [author |-> hasAuthor, labels |-> n]

\* The decoded getPosts answers: no 'posts' member, an empty list, one post.
NoPostsKey == [hasPosts |-> FALSE, posts |-> <<>>]
Payload(posts) == [hasPosts |-> TRUE, posts |-> posts]

DataAnswers ==
    {NoPostsKey, Payload(<<>>), Payload(<<Post(FALSE, 0)>>)}
        \cup {Payload(<<Post(TRUE, n)>>) : n \in 0..MaxLabels}

NoData == [hasPosts |-> FALSE, posts |-> <<>>]

\* os.environ.get(name): unset, set to "", or set.
EnvValues == {NoneVal, "", "env-value"}

\* input() / getpass(): what is typed, or EOFError on a closed stdin.
PromptAnswers == {"typed-value", "EOF"}

(***************************************************************************)
(* main                                                                    *)
(***************************************************************************)
Init ==
    /\ argv \in Argvs
    /\ pc = "start"
    /\ at_uri = <<>>
    /\ access_token = NoneVal
    /\ handle = NoneVal
    /\ password = NoneVal
    /\ data = NoData
    /\ exc = NoExc
    /\ calls = <<>>
    /\ out = <<>>
    /\ envReads = 0
    /\ prompts = 0
    /\ status = 0

\* raise inside the outer try: control moves to "except Exception as e".
Raise(e) ==
    /\ exc' = e
    /\ pc' = "handler"

\* len(sys.argv) < 2: print the usage text and sys.exit(1).
Usage ==
    /\ pc = "start"
    /\ argv = <<>>
    /\ out' = Append(out, Line("usage", ""))
    /\ status' = 1
    /\ pc' = "exit"
    /\ UNCHANGED <<argv, at_uri, access_token, handle, password, data, exc,
                   calls, envReads, prompts>>

\* at_uri = parse_input(input_str) for the inputs that need no request.
ParseLocal ==
    /\ pc = "start"
    /\ argv # <<>>
    /\ ~NeedsResolve(argv[1])
    /\ LET s == argv[1] IN
         IF StartsWithAt(s) THEN
             /\ at_uri' = s
             /\ out' = out \o <<Line("checking", ""), Line("attempting", "")>>
             /\ pc' = "unauth"
             /\ UNCHANGED exc
         ELSE IF IsApiUrl(s) THEN
             IF ApiComplete(s) THEN
                 /\ at_uri' = ApiUri(s)
                 /\ out' = out \o <<Line("checking", ""), Line("attempting", "")>>
                 /\ pc' = "unauth"
                 /\ UNCHANGED exc
             ELSE
                 /\ Raise(Exc("ValueError", "Could not parse API URL"))
                 /\ UNCHANGED <<at_uri, out>>
         ELSE IF IsWebUrl(s) THEN
             /\ Raise(Exc("ValueError", "Could not parse Bluesky URL"))
             /\ UNCHANGED <<at_uri, out>>
         ELSE
             /\ Raise(Exc("ValueError", "Unrecognized input format"))
             /\ UNCHANGED <<at_uri, out>>
    /\ UNCHANGED <<argv, access_token, handle, password, data, calls,
                   envReads, prompts, status>>

\* parse_input on a bsky.app URL the pattern matches: print, ask
\* resolveHandle for the matched segment, build the AT-URI from the answer.
ParseWeb ==
    /\ pc = "start"
    /\ argv # <<>>
    /\ NeedsResolve(argv[1])
    /\ LET s == argv[1]
           h == MatchHandle(s)
           rkey == MatchRkey(s)
       IN \E result \in Results \ {"401"}, did \in DidAnswers :
            /\ result # "ok" => did = NoneVal
            /\ calls' = Append(calls,
                   Call("resolveHandle", h, <<>>, result,
                        IF result = "ok" THEN <<did>> ELSE <<>>))
            /\ IF result # "ok" THEN
                   /\ Raise(RaisedBy(result))
                   /\ out' = Append(out, Line("resolving", ""))
                   /\ UNCHANGED at_uri
               ELSE IF ~Truthy(did) THEN
                   /\ Raise(Exc("ValueError", "Could not resolve handle to DID"))
                   /\ out' = Append(out, Line("resolving", ""))
                   /\ UNCHANGED at_uri
               ELSE
                   /\ at_uri' = AtUri(<<did>>, <<"app.bsky.feed.post">>, rkey)
                   /\ out' = out \o <<Line("resolving", ""), Line("checking", ""),
                                      Line("attempting", "")>>
                   /\ pc' = "unauth"
                   /\ UNCHANGED exc
    /\ UNCHANGED <<argv, access_token, handle, password, data,
                   envReads, prompts, status>>

\* Mutant of AfterUnauth: the login is started after a successful call too.
AfterUnauthAlwaysLogin(result) ==
    IF result \in {"ok", "401"} THEN "creds" ELSE "handler"

\* Mutant of AfterUnauth: every HTTPError starts the login, not only a 401.
AfterUnauthAnyStatus(result) ==
    IF result = "ok" THEN "posts"
    ELSE IF result \in {"401", "http"} THEN "creds"
    ELSE "handler"

\* Where main goes after the unauthenticated get_post.
AfterUnauth(result) ==
    IF result = "ok" THEN "posts"
    ELSE IF result = "401" THEN "creds"
    ELSE "handler"

\* data = get_post(at_uri), and "except requests.HTTPError": a 401 starts
\* the login, any other HTTPError is re-raised, any other exception passes.
GetPostUnauth ==
    /\ pc = "unauth"
    /\ \E result \in Results, d \in DataAnswers :
         /\ calls' = Append(calls,
                Call("get_post", at_uri, Headers(NoneVal), result,
                     IF result = "ok" THEN <<d>> ELSE <<>>))
         /\ pc' = AfterUnauth(result)
         /\ data' = IF result = "ok" THEN d ELSE data
         /\ exc' = IF AfterUnauth(result) = "handler" THEN RaisedBy(result) ELSE exc
         /\ out' = IF AfterUnauth(result) = "creds"
                   THEN Append(out, Line("auth-required", "")) ELSE out
    /\ UNCHANGED <<argv, at_uri, access_token, handle, password,
                   envReads, prompts, status>>

\* handle / password: the environment value when truthy, else the prompt.
GetCredentials ==
    /\ pc = "creds"
    /\ \E eh \in EnvValues, ep \in EnvValues, ph \in PromptAnswers, pp \in PromptAnswers :
         LET askH == ~Truthy(eh)
             failH == askH /\ ph = "EOF"
             askP == ~failH /\ ~Truthy(ep)
             failP == askP /\ pp = "EOF"
         IN  /\ envReads' = envReads + (IF failH THEN 1 ELSE 2)
             /\ prompts' = prompts + (IF askH THEN 1 ELSE 0) + (IF askP THEN 1 ELSE 0)
             /\ handle' = IF failH THEN handle ELSE IF askH THEN ph ELSE eh
             /\ password' = IF failH \/ failP THEN password
                            ELSE IF askP THEN pp ELSE ep
             /\ IF failH \/ failP
                THEN Raise(Exc("EOFError", "EOF when reading a line"))
                ELSE pc' = "login" /\ UNCHANGED exc
    /\ UNCHANGED <<argv, at_uri, access_token, data, calls, out, status>>

\* Mutant of AfterLogin: a failed login is swallowed and the retry goes on.
AfterLoginSwallow(result, token) == "retry"

\* Where main goes after create_session.
AfterLogin(result, token) ==
    IF result = "ok" /\ token # "missing" THEN "retry" ELSE "handler"

\* access_token = create_session(handle, password)
CreateSession ==
    /\ pc = "login"
    /\ \E result \in Results, token \in TokenAnswers :
         /\ result # "ok" => token = "missing"
         /\ LET returns == result = "ok" /\ token # "missing" IN
            /\ calls' = Append(calls,
                   Call("create_session", <<handle, password>>, <<>>, result,
                        IF returns THEN <<token>> ELSE <<>>))
            /\ pc' = AfterLogin(result, token)
            /\ access_token' = IF returns THEN token ELSE access_token
            /\ exc' = IF AfterLogin(result, token) # "handler" THEN exc
                      ELSE IF result = "ok" THEN Exc("KeyError", "'accessJwt'")
                      ELSE RaisedBy(result)
            /\ out' = IF AfterLogin(result, token) = "retry"
                      THEN Append(out, Line("auth-ok", "")) ELSE out
    /\ UNCHANGED <<argv, at_uri, handle, password, data, envReads, prompts, status>>

\* Mutant of AfterRetry: a second 401 logs in again (a retry loop).
AfterRetryLoop(result) ==
    IF result = "ok" THEN "posts"
    ELSE IF result = "401" THEN "creds"
    ELSE "handler"

\* Where main goes after the authenticated get_post.
AfterRetry(result) == IF result = "ok" THEN "posts" ELSE "handler"

\* data = get_post(at_uri, access_token), inside the except clause: whatever
\* it raises leaves the inner try and reaches the outer handler.
GetPostAuth ==
    /\ pc = "retry"
    /\ \E result \in Results, d \in DataAnswers :
         /\ calls' = Append(calls,
                Call("get_post", at_uri, Headers(access_token), result,
                     IF result = "ok" THEN <<d>> ELSE <<>>))
         /\ pc' = AfterRetry(result)
         /\ data' = IF result = "ok" THEN d ELSE data
         /\ exc' = IF AfterRetry(result) = "handler" THEN RaisedBy(result) ELSE exc
    /\ UNCHANGED <<argv, at_uri, access_token, handle, password, out,
                   envReads, prompts, status>>

\* posts = data.get('posts', []); an empty list prints "Post not found" and
\* calls sys.exit(1): SystemExit is no Exception, the handler is passed by.
CheckPosts ==
    /\ pc = "posts"
    /\ IF data.posts = <<>>
       THEN /\ out' = Append(out, Line("not-found", ""))
            /\ status' = 1
            /\ pc' = "exit"
       ELSE /\ out' = Append(out, Line("post-found", ""))
            /\ pc' = "display"
            /\ UNCHANGED status
    /\ UNCHANGED <<argv, at_uri, access_token, handle, password, data, exc,
                   calls, envReads, prompts>>

\* The lines printed for n labels: a count and one line each, or "No labels".
RECURSIVE LabelLines(_)
LabelLines(n) == IF n = 0 THEN <<>> ELSE Append(LabelLines(n - 1), Line("label", ""))

LabelReport(n) ==
    IF n > 0 THEN <<Line("label-count", "")>> \o LabelLines(n)
    ELSE <<Line("no-labels", "")>>

\* post = posts[0]: author, text, labels, the JSON dump; falling off the end
\* of main ends the process with status 0. post['author'] raises KeyError
\* when the post has no author.
Display ==
    /\ pc = "display"
    /\ LET post == data.posts[1] IN
         IF ~post.author THEN
             /\ Raise(Exc("KeyError", "'author'"))
             /\ UNCHANGED <<out, status>>
         ELSE
             /\ out' = out \o <<Line("author", ""), Line("text", "")>>
                           \o LabelReport(post.labels) \o <<Line("full-data", "")>>
             /\ status' = 0
             /\ pc' = "exit"
             /\ UNCHANGED exc
    /\ UNCHANGED <<argv, at_uri, access_token, handle, password, data,
                   calls, envReads, prompts>>

\* Mutant of HandleError: the error is printed and the run exits 0.
HandleErrorExitZero ==
    /\ pc = "handler"
    /\ out' = Append(out, Line("error", exc.msg))
    /\ status' = 0
    /\ pc' = "exit"
    /\ UNCHANGED <<argv, at_uri, access_token, handle, password, data, exc,
                   calls, envReads, prompts>>

\* Mutant of HandleError: the error line replaces the lines printed so far.
HandleErrorOnly ==
    /\ pc = "handler"
    /\ out' = <<Line("error", exc.msg)>>
    /\ status' = 1
    /\ pc' = "exit"
    /\ UNCHANGED <<argv, at_uri, access_token, handle, password, data, exc,
                   calls, envReads, prompts>>

\* except Exception as e: print(f"Error: {e}"); sys.exit(1)
HandleError ==
    /\ pc = "handler"
    /\ out' = Append(out, Line("error", exc.msg))
    /\ status' = 1
    /\ pc' = "exit"
    /\ UNCHANGED <<argv, at_uri, access_token, handle, password, data, exc,
                   calls, envReads, prompts>>

Next ==
    \/ Usage
    \/ ParseLocal
    \/ ParseWeb
    \/ GetPostUnauth
    \/ GetCredentials
    \/ CreateSession
    \/ GetPostAuth
    \/ CheckPosts
    \/ Display
    \/ HandleError

Spec == Init /\ [][Next]_vars

(***************************************************************************)
(* What a run did, read off its requests and its output.                   *)
(***************************************************************************)
GetPosts == SelectSeq(calls, LAMBDA c : c.fn = "get_post")
Logins   == SelectSeq(calls, LAMBDA c : c.fn = "create_session")
Resolves == SelectSeq(calls, LAMBDA c : c.fn = "resolveHandle")

\* The position in calls of the n-th request issued by fn.
IndexOf(fn, n) ==
    CHOOSE i \in 1..Len(calls) :
        /\ calls[i].fn = fn
        /\ Len(SelectSeq(SubSeq(calls, 1, i), LAMBDA c : c.fn = fn)) = n

Ended == pc = "exit"
HasArg == argv # <<>>

First401 == Len(GetPosts) >= 1 /\ GetPosts[1].result = "401"
FirstFound ==
    /\ Len(GetPosts) >= 1
    /\ GetPosts[1].result = "ok"
    /\ GetPosts[1].ret[1].posts # <<>>
FirstFatal == Len(GetPosts) >= 1 /\ GetPosts[1].result \in {"http", "transport"}
LoginFailed == Len(Logins) >= 1 /\ Logins[1].result \in {"401", "http", "transport"}
LoginReturned == Len(Logins) >= 1 /\ Logins[1].ret # <<>>
RetryFailed == Len(GetPosts) >= 2 /\ GetPosts[2].result # "ok"

Printed(kind) == \E i \in 1..Len(out) : out[i].kind = kind
CountPrinted(kind) == Len(SelectSeq(out, LAMBDA l : l.kind = kind))

\* The tokens of the inputs that are handles, and those that are DIDs.
HandleTokens == {"handle.bsky.social"}
DidTokens == {"did:plc:abc123", "did:plc:999"}

\* The components of an AT-URI: what follows "at://", split at "/".
Components(u) == IF Len(u) >= 2 THEN SplitOn(Tail2(u, 2), "/") ELSE <<>>
Account(u) == IF Components(u) = <<>> THEN <<>> ELSE Components(u)[1]
AccountIsHandle(u) == Len(Account(u)) = 1 /\ Account(u)[1] \in HandleTokens

WellFormedUri(u) ==
    /\ StartsWithAt(u)
    /\ Len(Components(u)) = 3
    /\ \A i \in 1..3 : Components(u)[i] # <<>>

C2_NoLoginAfterSuccess ==
    FirstFound =>
        /\ Len(Logins) = 0
        /\ envReads = 0 /\ prompts = 0
        /\ Len(GetPosts) = 1
        /\ pc \notin {"creds", "login", "retry"}

C2_Witness == FirstFound /\ Ended /\ status = 0 /\ Printed("full-data")

(***************************************************************************)
(* C3. 401 on the first get_post, then a failed create_session: exit 1,    *)
(* no second get_post.                                                     *)
(***************************************************************************)
\* C3: once create_session has failed (error status or transport error)
\* after a 401, the run holds one get_post only, is in the handler or
\* ended, and ends with status 1.
C3_LoginFailureFatal ==
    (First401 /\ LoginFailed) =>
        /\ Len(GetPosts) = 1
        /\ Len(Logins) = 1
        /\ pc \in {"handler", "exit"}
        /\ Ended => status = 1

C3_Witness ==
    /\ First401 /\ Ended /\ status = 1
    /\ Len(Logins) = 1 /\ Logins[1].result = "transport"

(***************************************************************************)
(* C4. No get_post is issued with a reference whose account is a handle.   *)
(***************************************************************************)
\* C4 as claimed: the account component of the reference of every get_post
\* request is not a handle.
C4_AsClaimed ==
    \A i \in 1..Len(calls) :
        calls[i].fn = "get_post" => ~AccountIsHandle(calls[i].arg)

(***************************************************************************)
(* C5. Whatever parse_input returns has the shape                          *)
(* at://<account>/<collection>/<record-key>, all three non-empty.          *)
(***************************************************************************)
\* C5 as claimed: once parse_input has returned, at_uri is "at://" followed
\* by exactly three non-empty components separated by "/".
C5_AsClaimed ==
    (HasArg /\ pc \notin {"start", "handler", "exit"}) => WellFormedUri(at_uri)

(***************************************************************************)
(* C10. For a bsky.app URL the pattern matches, resolveHandle is called    *)
(* iff the segment is a handle; a DID segment is used as the account.      *)
(***************************************************************************)
\* C10 as claimed: after parse_input ran on a matching bsky.app URL, a
\* resolveHandle request was issued exactly when the matched segment is a
\* handle, and a DID segment is the account of the reference.
C10_AsClaimed ==
    (HasArg /\ pc # "start" /\ NeedsResolve(argv[1])) =>
        LET seg == MatchHandle(argv[1]) IN
        /\ (Len(Resolves) >= 1) <=> (Len(seg) = 1 /\ seg[1] \in HandleTokens)
        /\ (Len(seg) = 1 /\ seg[1] \in DidTokens /\ at_uri # <<>>) => Account(at_uri) = seg

(***************************************************************************)
(* C6. A run given an argument ends with status 0 or 1: 0 when the post    *)
(* was found and its labels printed, 1 on every parsing, fetch (HTTP or    *)
(* transport) or authentication error and on an empty posts list.          *)
(***************************************************************************)
ParseFailed ==
    \/ exc.type = "ValueError"
    \/ Len(Resolves) >= 1 /\ Resolves[1].result # "ok"
AnyFetchError == \E i \in 1..Len(GetPosts) : GetPosts[i].result # "ok"
AuthFailed ==
    \/ Len(Logins) >= 1 /\ Logins[1].ret = <<>>
    \/ exc.type = "EOFError"
PostsEmpty ==
    /\ Len(GetPosts) >= 1
    /\ GetPosts[Len(GetPosts)].result = "ok"
    /\ GetPosts[Len(GetPosts)].ret[1].posts = <<>>
LabelsPrinted == Printed("post-found") /\ Printed("full-data")

\* A get_post failure that ends the run: any failure of the first call but
\* a 401, and any failure of the retried call.
FatalFetchError == FirstFatal \/ RetryFailed

\* C6 as claimed: an ended run with an argument has status 0 or 1, 0 when
\* the labels were printed, and 1 when parsing failed, any get_post call
\* failed, the login failed, or the posts list was empty.
C6_AsClaimed ==
    (Ended /\ HasArg) =>
        /\ status \in {0, 1}
        /\ LabelsPrinted => status = 0
        /\ (ParseFailed \/ AnyFetchError \/ AuthFailed \/ PostsEmpty) => status = 1

\* C6 amended: as claimed, with "fetch error" read as a fatal one: a 401 on
\* the first get_post is no failure of the run when the login and the
\* retried get_post succeed; status 0 is reached only with the labels
\* printed.
C6_Amended ==
    (Ended /\ HasArg) =>
        /\ status \in {0, 1}
        /\ LabelsPrinted => status = 0
        /\ (ParseFailed \/ FatalFetchError \/ AuthFailed \/ PostsEmpty) => status = 1
        /\ status = 0 => (LabelsPrinted /\ exc = NoExc)

C6_Witness ==
    /\ Ended /\ HasArg /\ status = 1
    /\ First401 /\ LoginReturned /\ RetryFailed
    /\ GetPosts[2].result = "401"

(***************************************************************************)
(* C7. Every error path (input format, resolution, transport, failed login *)
(* or retried fetch, not-found) reaches the top-level handler, which       *)
(* prints "Error: <message>" and exits 1; earlier lines stay in the output.*)
(***************************************************************************)
HandlerRan ==
    /\ out # <<>>
    /\ out[Len(out)] = Line("error", exc.msg)
    /\ exc # NoExc
    /\ CountPrinted("error") = 1

\* The progress lines the run printed before it failed.
EarlierLinesKept ==
    /\ Len(Resolves) >= 1 => out[1].kind = "resolving"
    /\ at_uri # <<>> => (Printed("checking") /\ Printed("attempting"))
    /\ First401 => Printed("auth-required")
    /\ LoginReturned => Printed("auth-ok")
    /\ exc.type = "KeyError" /\ exc.msg = "'author'" => Printed("post-found")

HandledError == ParseFailed \/ FatalFetchError \/ AuthFailed

\* C7 as claimed: an ended run on any of the listed error paths, not-found
\* included, ended in the handler: its last line is the Error line, its
\* status 1, its earlier lines kept.
C7_AsClaimed ==
    (Ended /\ HasArg /\ (HandledError \/ PostsEmpty)) =>
        /\ HandlerRan
        /\ status = 1
        /\ EarlierLinesKept

\* C7 amended: every listed error path but not-found ends in the handler,
\* which appends one "Error: <message>" line to the lines already printed
\* and exits 1; not-found prints "Post not found" and exits 1 directly,
\* without an Error line.
C7_Amended ==
    /\ (Ended /\ HasArg /\ HandledError) =>
          /\ HandlerRan
          /\ status = 1
          /\ EarlierLinesKept
    /\ (Ended /\ HasArg /\ PostsEmpty) =>
          /\ out[Len(out)] = Line("not-found", "")
          /\ ~Printed("error")
          /\ exc = NoExc
          /\ status = 1
          /\ EarlierLinesKept

C7_Witness ==
    /\ Ended /\ HasArg /\ RetryFailed /\ HandlerRan
    /\ Len(Resolves) = 1 /\ Len(out) = 6

(***************************************************************************)
(* C8. At most two get_post and one create_session per run; a failed       *)
(* second get_post (a 401 included) is final; credentials at most once.    *)
(***************************************************************************)
\* C8: in every state there are at most two get_post requests, at most one
\* create_session, each credential read from the environment and prompted
\* for at most once; after a failed second get_post it is the last request,
\* the run is in the handler or ended, and it ends with status 1.
C8_SingleRetry ==
    /\ Len(GetPosts) <= 2
    /\ Len(Logins) <= 1
    /\ envReads <= 2 /\ prompts <= 2
    /\ RetryFailed =>
          /\ calls[Len(calls)].fn = "get_post"
          /\ IndexOf("get_post", 2) = Len(calls)
          /\ pc \in {"handler", "exit"}
          /\ Ended => status = 1

C8_Witness ==
    /\ Ended /\ status = 1 /\ Len(GetPosts) = 2 /\ Len(Logins) = 1
    /\ GetPosts[2].result = "401" /\ GetPosts[2].auth = <<"Bearer", "jwt-1">>
    /\ prompts = 2

(***************************************************************************)
(* C9. A first get_post that fails with a status other than 401, or with a *)
(* transport error, is fatal: no credentials, no login, no retry, exit 1.  *)
(***************************************************************************)
\* C9: in every state after such a failure no credential was read or
\* prompted for, there is no create_session and no second get_post, the
\* run is in the handler or ended, and it ends with status 1.
C9_OtherFailureFatal ==
    FirstFatal =>
        /\ envReads = 0 /\ prompts = 0
        /\ Len(Logins) = 0
        /\ Len(GetPosts) = 1
        /\ pc \in {"handler", "exit"}
        /\ Ended => status = 1

C9_Witness ==
    /\ Ended /\ status = 1 /\ Len(GetPosts) = 1
    /\ GetPosts[1].result = "http" /\ out[Len(out)].kind = "error"

====
